---- MODULE Spec2Model ----
(***************************************************************************)
(* A model of the curator ingestion-and-enrichment pipeline:               *)
(*   curator/imageLocation.py  image_files, load_from_directory,           *)
(*                             load_images, create_image_location,         *)
(*                             delete_image_location                       *)
(*   curator/image.py          ImageData, create_image, read_image,        *)
(*                             set_image                                    *)
(*   curator/describer.py      describe_image, describe_image_ollama,      *)
(*                             describe_image_kaggle, run_describer        *)
(*   curator/scheduler.py      task, start_scheduler                       *)
(*   curator/api.py            add_location, delete_location,              *)
(*                             set_image_description                       *)
(*                                                                         *)
(* Paths and file names are sequences of one-character strings, so that    *)
(* os.path.join, str.lower, str.endswith, os.path.splitext and the SQL     *)
(* startswith are computed on the characters as the code computes them.    *)
(***************************************************************************)
EXTENDS Naturals, Sequences, FiniteSets

\* ------------------------------------------------------------------------
\* Bounds of the model
\* ------------------------------------------------------------------------

\* How many times the environment changes the filesystem in one behaviour.
MaxFsChanges == 2

\* How many HTTP background-task threads run load_from_directory at once.
NumWorkers == 1

\* settings.scheduler_interval, in ticks of the model's clock.
Interval == 1

\* How many symbolic links the operating system follows while it resolves
\* one path; a path with more fails to resolve (ELOOP).  40 on Linux.
MaxSymlinks == 1

\* How many nested calls the interpreter allows before it raises
\* RecursionError (sys.getrecursionlimit(), 1000 by default).  The model
\* keeps the two limits in a ratio under which the link cycle of its
\* universe stands for a cycle through a long chain of directories: one
\* turn of the cycle costs more frames than the interpreter has per link.
RecursionLimit == 3

\* ------------------------------------------------------------------------
\* The filesystem universe
\* ------------------------------------------------------------------------

NULL == "NULL"

SEP == "/"

\* Registered directories the HTTP layer may be given.  P and PS exist and
\* overlap (PS lies under P); Q does not exist on disk.
P == <<"p">>

PS == <<"p", "/", "s">>

Q == <<"q">>

Dirs == {P, PS, Q}

ExistingDirs == {P, PS}

\* Directory entry names.
NA == <<"a", ".", "J", "P", "G">>

NB == <<"b", ".", "n", "e", "f">>

NC == <<"c", ".", "t", "x", "t">>

NS == <<"s">>

\* A directory entry whose name ends like an image file's.
ND == <<"d", ".", "j", "p", "g">>

\* The name of a symbolic link.
NL == <<"l">>

Names == {NA, NB, NC, NS, ND, NL}

\* os.path.join(dir, name) for a relative name and a dir without a trailing
\* separator.
Join(dir, name) == dir \o <<SEP>> \o name

FA == Join(P, NA)

FB == Join(PS, NB)

FC == Join(P, NC)

\* A directory under P that exists in some behaviours only (world.tree).
PD == Join(P, ND)

\* A symbolic link in PS that leads back to P, in some behaviours only
\* (world.links): the tree then has the cycle p -> p/s -> p/s/l = p.
PL == Join(PS, NL)

LinkToAncestor == [ path |-> PL, target |-> P ]

\* Files whose presence and readability the environment changes.
DynFiles == {FA, FB}

\* Files that are always present and readable.
StaticFiles == {FC}

FileStates == {"absent", "ok", "bad"}

\* ------------------------------------------------------------------------
\* String helpers
\* ------------------------------------------------------------------------

\* str.lower() on one character of the model's alphabet.
LowerChar(c) ==
    CASE c = "J" -> "j"
      [] c = "P" -> "p"
      [] c = "G" -> "g"
      [] OTHER -> c

Lower(s) == [i \in 1..Len(s) |-> LowerChar(s[i])]

EndsWith(s, suf) ==
    /\ Len(suf) <= Len(s)
    /\ SubSeq(s, Len(s) - Len(suf) + 1, Len(s)) = suf

StartsWith(s, pre) ==
    /\ Len(pre) <= Len(s)
    /\ SubSeq(s, 1, Len(pre)) = pre

IMAGE_FORMATS ==
    { <<".", "j", "p", "g">>, <<".", "j", "p", "e", "g">>, <<".", "n", "e", "f">> }

\* f.lower().endswith(IMAGE_FORMATS)
IsImageName(f) == \E fmt \in IMAGE_FORMATS : EndsWith(Lower(f), fmt)

\* The position of the last "." of the last path component, 0 if none
\* (os.path.splitext: a leading dot of the component is not an extension).
RECURSIVE LastDot(_, _)
LastDot(s, i) ==
    IF i = 0 \/ s[i] = SEP THEN 0
    ELSE IF s[i] = "." /\ i > 1 /\ s[i - 1] # SEP THEN i
    ELSE LastDot(s, i - 1)

\* os.path.splitext(image_file)[1][1:]
FormatOf(path) ==
    LET d == LastDot(path, Len(path))
    IN  IF d = 0 THEN <<>> ELSE SubSeq(path, d + 1, Len(path))

\* ------------------------------------------------------------------------
\* State
\* ------------------------------------------------------------------------

\* Threads that run load_from_directory: the scheduler thread, and the
\* threads that run the HTTP layer's background tasks.
SchedProc == 0

Workers == 1..NumWorkers

Procs == {SchedProc} \cup Workers

VARIABLES
    fs,           \* DynFiles -> FileStates: the files on disk
    fsChanges,    \* how many times the environment changed the filesystem
    locations,    \* the ImageLocation table: the registered directories
    images,       \* the image table: the committed ImageData rows
    index,        \* the chroma collection "images": records [id, document]
    userDesc,     \* the description records written by set_image_description
    run,          \* Procs -> the state of that thread's load_from_directory
    spc,          \* where the scheduler thread is
    slocs,        \* load_images: the locations still to be loaded
    running,      \* how many cycles (calls of task) are in progress
    queue,        \* how many task events the sched queue holds
    due,          \* the delay the queued event was entered with
    elapsed,      \* clock ticks since the event was entered / the cycle began
    dq,           \* run_describer: the selected images still to be described
    derr,         \* the exception run_describer raised, if any
    settings,     \* config.settings: use_ollama, scheduler_interval
    world,        \* what the environment is and may do in this behaviour
    scan,         \* a call of image_files by itself: its arguments and outcome
    settled,      \* history: locations loaded to completion, no change since
    backendFailed \* history: ids whose description call found no backend

vars ==
    << fs, fsChanges, locations, images, index, userDesc, run, spc, slocs,
       running, queue, due, elapsed, dq, derr, settings, world, scan,
       settled, backendFailed >>

\* What no operation of the pipeline changes.
cfgVars == << settings, world, scan >>

envVars == << fs, fsChanges >>

httpVars == << locations, userDesc >>

schedVars == << slocs, queue, due, elapsed >>

descVars == << index, dq, derr, backendFailed >>

\* The state of one load_from_directory call.
\*   pc       "idle" (no call), "start" (called, not yet scanned), "loop"
\*   files    the scan's result still to be processed
\*   pending  the locations added to the session and not yet committed
\*   added    the counter `added`
\*   err      how the last call ended: "running", "none" or the exception
\*   clean    history: the filesystem has not changed since the scan
\*   second   history: at the scan the location was in `settled`
IdleRun ==
    [ pc |-> "idle", directory |-> NULL, files |-> <<>>, pending |-> <<>>,
      added |-> 0, err |-> "none", clean |-> FALSE, second |-> FALSE ]

\* No call of image_files by itself has been made.
IdleScan ==
    [ pc |-> "idle", root |-> NULL, existing |-> {}, out |-> <<>>,
      err |-> "none" ]

Range(s) == { s[i] : i \in 1..Len(s) }

Max(S) == CHOOSE m \in S : \A x \in S : x <= m

\* ------------------------------------------------------------------------
\* curator/imageLocation.py: image_files
\* ------------------------------------------------------------------------

Present == StaticFiles \cup { f \in DynFiles : fs[f] # "absent" }

\* open(path, 'rb') and read() succeed.
Readable(path) == path \in StaticFiles \/ (path \in DynFiles /\ fs[path] = "ok")

\* os.listdir returns the entries in an arbitrary order: `ord` is a
\* permutation of Names, and the listing is the entries in that order.  Two
\* opposite orders list every pair of entries both ways round.
Forward == << NA, NB, NC, NS, ND, NL >>

Reverse(s) == [i \in 1..Len(s) |-> s[Len(s) + 1 - i]]

Orders == { Forward, Reverse(Forward) }

\* path is dir or lies under it.
Under(path, dir) == path = dir \/ StartsWith(path, dir \o <<SEP>>)

\* The path the operating system resolves `path` to: the leading link is
\* replaced by its target, again and again.
RECURSIVE Resolve(_)
Resolve(path) ==
    IF \E l \in world.links : Under(path, l.path)
    THEN LET l == CHOOSE k \in world.links : Under(path, k.path)
         IN  Resolve(l.target \o SubSeq(path, Len(l.path) + 1, Len(path)))
    ELSE path

\* How many links the resolution of `path` follows.
RECURSIVE LinksIn(_)
LinksIn(path) ==
    IF \E l \in world.links : Under(path, l.path)
    THEN LET l == CHOOSE k \in world.links : Under(path, k.path)
         IN  1 + LinksIn(l.target \o SubSeq(path, Len(l.path) + 1, Len(path)))
    ELSE 0

\* The directories on disk.
DirNodes == ExistingDirs \cup world.tree

\* os.listdir(dir): the files, directories and links in the directory that
\* dir resolves to.
ListDir(dir, ord) ==
    LET IsEntry(n) ==
            Join(Resolve(dir), n) \in
                Present \cup DirNodes \cup { l.path : l \in world.links }
    IN  SelectSeq(ord, IsEntry)

\* os.path.isdir(path): os.stat follows links, and isdir is False when the
\* path does not resolve.
IsDir(path) == LinksIn(path) <= MaxSymlinks /\ Resolve(path) \in DirNodes

MapJoin(dir, names) == [i \in 1..Len(names) |-> Join(dir, names[i])]

\* Line 32: images = [img for img in images if img not in existing]
NotExistingMut(imgs, existing) == imgs

NotExisting(imgs, existing) ==
    LET IsNew(img) == img \notin existing
    IN  SelectSeq(imgs, IsNew)

RECURSIVE image_files(_, _, _)
RECURSIVE ExtendAll(_, _, _, _)
image_files(dir, existing, ord) ==
    LET IsImg(n) == IsImageName(n)
        IsSub(n) == IsDir(Join(dir, n))
        imgs == NotExisting(MapJoin(dir, SelectSeq(ListDir(dir, ord), IsImg)),
                            existing)
        sub_directories == MapJoin(dir, SelectSeq(ListDir(dir, ord), IsSub))
    IN  ExtendAll(imgs, sub_directories, existing, ord)

\* for sub_dir in sub_directories: images.extend(image_files(sub_dir, existing))
ExtendAll(imgs, subs, existing, ord) ==
    IF subs = <<>> THEN imgs
    ELSE ExtendAll(imgs \o image_files(Head(subs), existing, ord),
                   Tail(subs), existing, ord)

\* How many calls of image_files are nested at the deepest point of
\* image_files(dir, ...): the call itself and, line 35, the calls for its
\* subdirectories.
RECURSIVE Depth(_, _)
Depth(dir, ord) ==
    LET subs == { Join(dir, n) : n \in { m \in Range(ListDir(dir, ord)) :
                                            IsDir(Join(dir, m)) } }
    IN  IF subs = {} THEN 1
        ELSE 1 + Max({ Depth(sub, ord) : sub \in subs })

\* The exclusion sets a caller passes as `existing`.
KnownSets == SUBSET {FA, FB, PD}

\* A call image_files(root, existing) and its outcome: ValueError when the
\* root does not exist (lines 26-27), RecursionError when the calls nest
\* deeper than the interpreter allows, the list of line 36 otherwise.
CallImageFiles(root, existing, ord) ==
    /\ scan.pc = "idle"
    /\ scan' =
          IF ~IsDir(root)
          THEN [ pc |-> "done", root |-> root, existing |-> existing,
                 out |-> <<>>, err |-> "ValueError" ]
          ELSE IF Depth(root, ord) > RecursionLimit
          THEN [ pc |-> "done", root |-> root, existing |-> existing,
                 out |-> <<>>, err |-> "RecursionError" ]
          ELSE [ pc |-> "done", root |-> root, existing |-> existing,
                 out |-> image_files(root, existing, ord), err |-> "none" ]
    /\ UNCHANGED << envVars, httpVars, images, run, spc, running, schedVars,
                    descVars, settings, world, settled >>

ImageLocations == { r.location : r \in images }

\* select(ImageData.location).where(col(ImageData.location).startswith(dir))
ExistingUnder(dir) == { l \in ImageLocations : StartsWith(l, dir) }

\* ------------------------------------------------------------------------
\* curator/image.py: ImageData, create_image
\* ------------------------------------------------------------------------

\* location: str = Field(unique=True): an INSERT of a location the table
\* already holds fails with an IntegrityError.
UniqueViolationMut(pending) == FALSE

UniqueViolation(pending) == Range(pending) \cap ImageLocations # {}

\* The primary key the table gives the k-th row of a batch.
NextId(k) == Cardinality(images) + k

\* hashlib.md5(image_data).hexdigest().  A file of the universe has one
\* content, so the digest is told by the file.
Md5(image_file) == << "md5", image_file >>

\* The camera and exposure attributes read from the file's EXIF block
\* (artist, camera model, exposure, aperture, ISO, ..., lines 109-121).
Exif(image_file) == << "exif", image_file >>

\* create_image(image_file): the row, without id.
create_image(image_file) ==
    [ location |-> image_file, hash |-> Md5(image_file),
      format |-> FormatOf(image_file), description |-> NULL,
      exif |-> Exif(image_file) ]

NewRows(pending) ==
    { [ id |-> NextId(k), location |-> create_image(pending[k]).location,
        hash |-> create_image(pending[k]).hash,
        format |-> create_image(pending[k]).format,
        description |-> create_image(pending[k]).description,
        exif |-> create_image(pending[k]).exif ] :
      k \in 1..Len(pending) }

\* ------------------------------------------------------------------------
\* curator/imageLocation.py: load_from_directory
\* ------------------------------------------------------------------------

\* An exception leaves load_from_directory: the session is closed without a
\* commit, so nothing of the batch is kept.  In the scheduler thread the
\* exception also leaves load_images, task and scheduler.run(), none of
\* which catches it: the thread ends inside the cycle.
Raise(p, e) ==
    /\ run' = [run EXCEPT ![p] = [IdleRun EXCEPT !.err = e]]
    /\ IF p = SchedProc
       THEN /\ spc' = "terminated"
            /\ running' = running - 1
       ELSE UNCHANGED << spc, running >>

\* Lines 40-43: image_files(location.directory), added = 0.
Scan(p, directory, ord) ==
    IF directory \notin ExistingDirs
    THEN Raise(p, "ValueError")
    ELSE /\ run' = [run EXCEPT ![p] =
                [ pc |-> "loop", directory |-> directory,
                  files |-> image_files(directory, ExistingUnder(directory), ord),
                  pending |-> <<>>, added |-> 0, err |-> "running",
                  clean |-> TRUE, second |-> directory \in settled ]]
         /\ UNCHANGED << spc, running >>

\* A background task of the HTTP layer starts load_from_directory.
WorkerScan(w) ==
    /\ w \in Workers
    /\ run[w].pc = "start"
    /\ \E ord \in Orders : Scan(w, run[w].directory, ord)
    /\ UNCHANGED << envVars, httpVars, images, schedVars, descVars, cfgVars,
                    settled >>

\* Lines 45-51: one iteration of the loop over the scanned files.
LoadStep(p) ==
    /\ run[p].pc = "loop"
    /\ run[p].files # <<>>
    /\ LET image_file == Head(run[p].files)
       IN  IF ~Readable(image_file)
           THEN Raise(p, "OSError")
           ELSE IF UniqueViolation(run[p].pending)
           THEN Raise(p, "IntegrityError")
           ELSE /\ IF image_file \in ImageLocations \cup Range(run[p].pending)
                   THEN run' = [run EXCEPT ![p].files = Tail(@)]
                   ELSE run' = [run EXCEPT ![p].files = Tail(@),
                                           ![p].pending = Append(@, image_file),
                                           ![p].added = @ + 1]
                /\ UNCHANGED << spc, running >>
    /\ UNCHANGED << envVars, httpVars, images, schedVars, descVars, cfgVars,
                    settled >>

\* Line 52: session.commit(), and the return of load_from_directory.
Commit(p) ==
    /\ run[p].pc = "loop"
    /\ run[p].files = <<>>
    /\ IF UniqueViolation(run[p].pending)
       THEN /\ Raise(p, "IntegrityError")
            /\ UNCHANGED << images, settled >>
       ELSE /\ images' = images \cup NewRows(run[p].pending)
            /\ run' = [run EXCEPT ![p] = IdleRun]
            /\ settled' = IF run[p].clean
                          THEN settled \cup {run[p].directory}
                          ELSE settled
            /\ UNCHANGED << spc, running >>
    /\ UNCHANGED << envVars, httpVars, schedVars, descVars, cfgVars >>

\* ------------------------------------------------------------------------
\* curator/api.py and curator/imageLocation.py: the HTTP layer's locations
\* ------------------------------------------------------------------------

\* create_image_location: a directory not yet registered is added, and
\* load_from_directory is queued as a background task.
create_image_location(directory, w) ==
    /\ directory \notin locations
    /\ w \in Workers
    /\ run[w].pc = "idle"
    /\ locations' = locations \cup {directory}
    /\ run' = [run EXCEPT ![w] = [IdleRun EXCEPT !.pc = "start",
                                                !.directory = directory,
                                                !.err = "running"]]
    /\ UNCHANGED << envVars, userDesc, images, spc, running, schedVars,
                    descVars, cfgVars, settled >>

delete_image_location(directory) ==
    /\ directory \in locations
    /\ locations' = locations \ {directory}
    /\ UNCHANGED << envVars, userDesc, images, run, spc, running, schedVars,
                    descVars, cfgVars, settled >>

\* ------------------------------------------------------------------------
\* The environment: files appear, disappear and become unreadable
\* ------------------------------------------------------------------------

FsChange(f, s) ==
    /\ fsChanges < MaxFsChanges
    /\ fs[f] # s
    /\ fs' = [fs EXCEPT ![f] = s]
    /\ fsChanges' = fsChanges + 1
    /\ settled' = {}
    /\ run' = [p \in Procs |-> [run[p] EXCEPT !.clean = FALSE]]
    /\ UNCHANGED << httpVars, images, spc, running, schedVars, descVars,
                    cfgVars >>

\* ------------------------------------------------------------------------
\* curator/scheduler.py: task, start_scheduler; load_images
\* ------------------------------------------------------------------------

\* A scheduler that re-arms the event when the cycle starts and does not
\* wait for the running cycle before it takes the next due event.
TaskStartMut ==
    /\ spc # "terminated"
    /\ queue > 0
    /\ elapsed >= due
    /\ due' = settings.scheduler_interval
    /\ running' = running + 1
    /\ spc' = "ingest"
    /\ slocs' = locations
    /\ elapsed' = 0
    /\ UNCHANGED << envVars, httpVars, images, run, queue, descVars, cfgVars,
                    settled >>

\* scheduler.run() takes the queued event once its delay has passed and
\* calls task; load_images reads the ImageLocation table.
TaskStart ==
    /\ spc = "idle"
    /\ queue > 0
    /\ elapsed >= due
    /\ queue' = queue - 1
    /\ running' = running + 1
    /\ spc' = "ingest"
    /\ slocs' = locations
    /\ elapsed' = 0
    /\ UNCHANGED << envVars, httpVars, images, run, due, descVars, cfgVars,
                    settled >>

\* load_images, lines 62-64: load_from_directory for the next location.
LoadNext ==
    /\ spc = "ingest"
    /\ run[SchedProc].pc = "idle"
    /\ \E location \in slocs :
        /\ slocs' = slocs \ {location}
        /\ \E ord \in Orders : Scan(SchedProc, location, ord)
    /\ UNCHANGED << envVars, httpVars, images, queue, due, elapsed, descVars,
                    cfgVars, settled >>

\* Line 15: scheduler.enter(config.settings.scheduler_interval, 1, task),
\* and the return of task to scheduler.run().
TaskEnd ==
    /\ spc = "describe"
    /\ dq = {}
    /\ queue' = queue + 1
    /\ due' = settings.scheduler_interval
    /\ elapsed' = 0
    /\ running' = running - 1
    /\ spc' = "idle"
    /\ UNCHANGED << envVars, httpVars, images, run, slocs, descVars, cfgVars,
                    settled >>

\* Time passes.  The clock is kept only as far as it matters: up to the
\* event's delay while the scheduler waits, and one tick past the interval
\* while a cycle runs.
Tick ==
    /\ \/ spc = "idle" /\ elapsed < due
       \/ spc \in {"ingest", "describe"} /\ elapsed <= settings.scheduler_interval
    /\ elapsed' = elapsed + 1
    /\ UNCHANGED << envVars, httpVars, images, run, spc, slocs, running, queue,
                    due, descVars, cfgVars, settled >>

\* ------------------------------------------------------------------------
\* curator/describer.py and curator/image.py: the description pass
\* ------------------------------------------------------------------------

ErrMarker == "Error describing image"

Generated == "generated"

\* describe_image_ollama that leaves the description null on a failure.
describe_image_ollamaMut(up) ==
    IF up THEN [ description |-> Generated, exc |-> "none" ]
    ELSE [ description |-> NULL, exc |-> "none" ]

\* describe_image_ollama: the response, or the error text when
\* ollama.generate raises.  [description, exception]
describe_image_ollama(up) ==
    IF up THEN [ description |-> Generated, exc |-> "none" ]
    ELSE [ description |-> ErrMarker, exc |-> "none" ]

\* describe_image_kaggle: nothing catches what the local model raises.
describe_image_kaggle(up) ==
    IF up THEN [ description |-> Generated, exc |-> "none" ]
    ELSE [ description |-> NULL, exc |-> "BackendError" ]

\* describe_image, lines 25-28, after read_image.
describe_image(up) ==
    IF settings.use_ollama THEN describe_image_ollama(up) ELSE describe_image_kaggle(up)

\* Whether a call of an external service succeeds.
Outcomes(mayFail) == IF mayFail THEN BOOLEAN ELSE {TRUE}

\* An exception leaves run_describer, and with it task and scheduler.run().
DescRaise(e) ==
    /\ derr' = e
    /\ dq' = {}
    /\ spc' = "terminated"
    /\ running' = running - 1

\* run_describer, lines 89-93: the images without a description.
SelectPending == { r \in images : r.description = NULL }

DescSelect ==
    /\ spc = "ingest"
    /\ slocs = {}
    /\ run[SchedProc].pc = "idle"
    /\ spc' = "describe"
    /\ dq' = SelectPending
    /\ UNCHANGED << envVars, httpVars, images, run, running, schedVars, index,
                    derr, backendFailed, cfgVars, settled >>

\* chroma_coll.add(documents=[description], ids=[str(id)]): a record whose
\* id the collection already holds is left as it is.
ChromaAdd(id, document) ==
    IF \E rec \in index : rec.id = id
    THEN index
    ELSE index \cup { [ id |-> id, document |-> document ] }

\* set_image that also stores the text as the image's "user" record.
set_imageMut(img, description, indexOk) ==
    /\ images' = { IF r.id = img.id
                   THEN [r EXCEPT !.description = description]
                   ELSE r : r \in images }
    /\ userDesc' = { d \in userDesc : d.image_id # img.id }
                     \cup { [ image_id |-> img.id, author |-> "user",
                              description |-> description,
                              selected |-> TRUE ] }
    /\ IF indexOk
       THEN /\ index' = ChromaAdd(img.id, description)
            /\ dq' = dq \ {img}
            /\ UNCHANGED << derr, spc, running >>
       ELSE /\ DescRaise("IndexError")
            /\ UNCHANGED index

\* set_image that writes the row back with its format in lower case.
set_imageLower(img, description, indexOk) ==
    /\ images' = { IF r.id = img.id
                   THEN [r EXCEPT !.description = description,
                                  !.format = Lower(@)]
                   ELSE r : r \in images }
    /\ UNCHANGED userDesc
    /\ IF indexOk
       THEN /\ index' = ChromaAdd(img.id, description)
            /\ dq' = dq \ {img}
            /\ UNCHANGED << derr, spc, running >>
       ELSE /\ DescRaise("IndexError")
            /\ UNCHANGED index

\* set_image: the UPDATE of the row's description is committed, and then
\* the record is added to the search index, which may fail.
set_image(img, description, indexOk) ==
    /\ images' = { IF r.id = img.id
                   THEN [r EXCEPT !.description = description]
                   ELSE r : r \in images }
    /\ UNCHANGED userDesc
    /\ IF indexOk
       THEN /\ index' = ChromaAdd(img.id, description)
            /\ dq' = dq \ {img}
            /\ UNCHANGED << derr, spc, running >>
       ELSE /\ DescRaise("IndexError")
            /\ UNCHANGED index

\* run_describer, lines 95-99: one iteration of the loop over the images.
DescOne ==
    /\ spc = "describe"
    /\ \E img \in dq :
        IF ~Readable(img.location)
        THEN /\ DescRaise("OSError")
             /\ UNCHANGED << images, index, userDesc, backendFailed >>
        ELSE \E up \in Outcomes(world.backendMayFail) :
             /\ backendFailed' = IF up THEN backendFailed \ {img.id}
                                 ELSE backendFailed \cup {img.id}
             /\ IF describe_image(up).exc # "none"
                THEN /\ DescRaise(describe_image(up).exc)
                     /\ UNCHANGED << images, index, userDesc >>
                ELSE \E indexOk \in Outcomes(world.indexMayFail) :
                        set_image(img, describe_image(up).description, indexOk)
    /\ UNCHANGED << envVars, locations, run, schedVars, cfgVars, settled >>

\* ------------------------------------------------------------------------
\* curator/api.py: set_image_description
\* ------------------------------------------------------------------------

UserTexts == {"by the user"}

\* PUT /images/{image_id}/descriptions/user: the record of author "user"
\* for that image is created or replaced.
\* The record of author "user" for an image.  `selected` is history: the
\* image was selected by a running description pass, and not yet described,
\* when the user wrote.
UserRecord(image_id, description) ==
    [ image_id |-> image_id, author |-> "user", description |-> description,
      selected |-> \E img \in dq : img.id = image_id ]

add_image_description(image_id, description) ==
    /\ \E r \in images : r.id = image_id
    /\ userDesc' = { d \in userDesc : d.image_id # image_id }
                     \cup { UserRecord(image_id, description) }
    /\ UNCHANGED << envVars, locations, images, run, spc, running, schedVars,
                    descVars, cfgVars, settled >>

set_image_description ==
    \E r \in images : \E description \in UserTexts :
        /\ UserRecord(r.id, description) \notin userDesc
        /\ add_image_description(r.id, description)

\* ------------------------------------------------------------------------
\* The specification
\* ------------------------------------------------------------------------

\* A fresh installation: empty tables, an empty index, and start_scheduler
\* has entered the first event with delay 0.
Fresh ==
    /\ fs \in [DynFiles -> FileStates]
    /\ fsChanges = 0
    /\ images = {}
    /\ index = {}
    /\ userDesc = {}
    /\ run = [p \in Procs |-> IdleRun]
    /\ spc = "idle"
    /\ slocs = {}
    /\ running = 0
    /\ queue = 1
    /\ due = 0
    /\ elapsed = 0
    /\ dq = {}
    /\ derr = "none"
    /\ settled = {}
    /\ backendFailed = {}
    /\ scan = IdleScan

Init ==
    /\ Fresh
    /\ locations = {}
    /\ settings \in [ use_ollama : BOOLEAN, scheduler_interval : {Interval} ]
    /\ world = [ dirs |-> Dirs, backendMayFail |-> TRUE, indexMayFail |-> TRUE,
                 tree |-> {}, links |-> {} ]

Next ==
    \/ \E f \in DynFiles : \E s \in FileStates : FsChange(f, s)
    \/ \E d \in world.dirs : \E w \in Workers : create_image_location(d, w)
    \/ \E d \in world.dirs : delete_image_location(d)
    \/ \E w \in Workers : WorkerScan(w)
    \/ \E p \in Procs : LoadStep(p)
    \/ \E p \in Procs : Commit(p)
    \/ set_image_description
    \/ TaskStart
    \/ LoadNext
    \/ DescSelect
    \/ DescOne
    \/ TaskEnd
    \/ Tick

Spec == Init /\ [][Next]_vars

\* ------------------------------------------------------------------------
\* Ingestion: scheduler cycles race with the HTTP layer's background loads
\* of the overlapping directories P and PS.  Each file is present and
\* readable, present and unreadable, or absent.  The scheduler runs its
\* cycles back to back (scheduler_interval = 0), and the description
\* backend and the search index are healthy.
\* ------------------------------------------------------------------------

InitIngest ==
    /\ Fresh
    /\ locations = {}
    /\ settings = [ use_ollama |-> TRUE, scheduler_interval |-> 0 ]
    /\ world = [ dirs |-> {P, PS}, backendMayFail |-> FALSE,
                 indexMayFail |-> FALSE,
                 tree |-> {}, links |-> {} ]

NextIngest ==
    \/ \E d \in world.dirs : \E w \in Workers : create_image_location(d, w)
    \/ \E d \in world.dirs : delete_image_location(d)
    \/ \E w \in Workers : WorkerScan(w)
    \/ \E p \in Procs : LoadStep(p)
    \/ \E p \in Procs : Commit(p)
    \/ TaskStart
    \/ LoadNext
    \/ DescSelect
    \/ DescOne
    \/ TaskEnd

SpecIngest == InitIngest /\ [][NextIngest]_vars

\* ------------------------------------------------------------------------
\* Re-runs: the scheduler loads the registered locations cycle after cycle
\* while the environment changes the filesystem.
\* ------------------------------------------------------------------------

InitRerun ==
    /\ Fresh
    /\ locations \in SUBSET {P, PS}
    /\ settings = [ use_ollama |-> TRUE, scheduler_interval |-> 0 ]
    /\ world = [ dirs |-> {}, backendMayFail |-> FALSE,
                 indexMayFail |-> FALSE,
                 tree |-> {}, links |-> {} ]

NextRerun ==
    \/ \E f \in DynFiles : \E s \in FileStates : FsChange(f, s)
    \/ LoadStep(SchedProc)
    \/ Commit(SchedProc)
    \/ TaskStart
    \/ LoadNext
    \/ DescSelect
    \/ DescOne
    \/ TaskEnd

SpecRerun == InitRerun /\ [][NextRerun]_vars

\* ------------------------------------------------------------------------
\* Description: the scheduler loads P and describes what it finds, with
\* either backend; the backend and the search index may fail at any call,
\* files change on disk, and the user writes descriptions.
\* ------------------------------------------------------------------------

InitDescribe ==
    /\ Fresh
    /\ locations = {P}
    /\ settings \in [ use_ollama : BOOLEAN, scheduler_interval : {0} ]
    /\ world = [ dirs |-> {}, backendMayFail |-> TRUE, indexMayFail |-> TRUE,
                 tree |-> {}, links |-> {} ]

NextDescribe ==
    \/ \E f \in DynFiles : \E s \in FileStates : FsChange(f, s)
    \/ LoadStep(SchedProc)
    \/ Commit(SchedProc)
    \/ TaskStart
    \/ LoadNext
    \/ DescSelect
    \/ DescOne
    \/ TaskEnd
    \/ set_image_description

SpecDescribe == InitDescribe /\ [][NextDescribe]_vars

\* ------------------------------------------------------------------------
\* Scheduling: the cycles against the clock.  The registered locations may
\* include Q, which does not exist; the backend and the index may fail.
\* ------------------------------------------------------------------------

InitSched ==
    /\ Fresh
    /\ locations \in SUBSET {P, Q}
    /\ settings \in [ use_ollama : BOOLEAN, scheduler_interval : {Interval} ]
    /\ world = [ dirs |-> {}, backendMayFail |-> TRUE, indexMayFail |-> TRUE,
                 tree |-> {}, links |-> {} ]

NextSched ==
    \/ LoadStep(SchedProc)
    \/ Commit(SchedProc)
    \/ TaskStart
    \/ LoadNext
    \/ DescSelect
    \/ DescOne
    \/ TaskEnd
    \/ Tick

SpecSched == InitSched /\ [][NextSched]_vars

\* ------------------------------------------------------------------------
\* The scanner by itself: image_files is called once, on a root that exists
\* (P, PS, PD when it is there) or does not (Q), with any exclusion set and
\* either listing order.  The files are present or absent; the directory
\* d.jpg and the link back to P are there or not.
\* ------------------------------------------------------------------------

InitScan ==
    /\ Fresh
    /\ locations = {}
    /\ settings = [ use_ollama |-> TRUE, scheduler_interval |-> 0 ]
    /\ world \in [ dirs : {{}}, backendMayFail : {FALSE},
                    indexMayFail : {FALSE}, tree : SUBSET {PD},
                    links : SUBSET {LinkToAncestor} ]

NextScan ==
    \E root \in Dirs \cup {PD} : \E existing \in KnownSets : \E ord \in Orders :
        CallImageFiles(root, existing, ord)

SpecScan == InitScan /\ [][NextScan]_vars

\* ------------------------------------------------------------------------
\* Properties
\* ------------------------------------------------------------------------

\* C1: in every reachable state, whatever the interleaving of the
\* scheduler's loads and the HTTP layer's background loads of the same or
\* of overlapping locations, no two rows of the image table have the same
\* location: a file has at most one catalog entry.
C1_UniqueLocation ==
    \A r1, r2 \in images : r1.location = r2.location => r1 = r2

\* Two loads raced: one holds an uncommitted insert of a location that the
\* other has committed in the meantime.
C1_Witness ==
    \E p \in Procs :
        /\ run[p].pc = "loop"
        /\ Range(run[p].pending) \cap ImageLocations # {}

\* C2: a load of a location that starts after a load of the same location
\* has completed, with no change of the filesystem since that load's scan,
\* scans nothing (every path under the location is already cataloged and
\* excluded) and adds nothing.
C2_Idempotent ==
    \A p \in Procs :
        run[p].second =>
            /\ run[p].files = <<>>
            /\ run[p].pending = <<>>
            /\ run[p].added = 0

\* A second load of a location that holds cataloged files is under way.
C2_Witness ==
    \E p \in Procs :
        /\ run[p].pc = "loop"
        /\ run[p].second
        /\ ExistingUnder(run[p].directory) # {}

\* C3: a load that loses the race for a location (the other load inserted
\* the path after this load's check and before its commit) finishes
\* without raising an error.
C3_DuplicateSwallowed ==
    \A p \in Procs : run[p].err # "IntegrityError"

\* C4: a failure of create_image on one file never aborts the load.
C4_BadFileSkipped ==
    \A p \in Procs : run[p].err # "OSError"

\* C5: an exception raised inside a cycle never ends the scheduler.
C5_SchedulerSurvives == spc # "terminated"

\* C6: at most one cycle is in progress at any time; no cycle starts while
\* another is in progress, also when the running cycle has lasted longer
\* than the interval.
C6_SingleFlight ==
    /\ running <= 1
    /\ running = 1 <=> spc \in {"ingest", "describe"}

\* A cycle is in progress and has lasted longer than the interval.
C6_Witness ==
    /\ running = 1
    /\ elapsed > settings.scheduler_interval

\* C7: with the remote (ollama) backend, an entry whose description call
\* found the backend unreachable has the error marker as its description,
\* the pass raised no backend error, and no entry with a non-null
\* description is among the entries a pass has selected and not yet
\* described.
C7_FailureIsTerminal ==
    /\ settings.use_ollama =>
        /\ derr # "BackendError"
        /\ \A r \in images :
              r.id \in backendFailed => r.description = ErrMarker
    /\ \A img \in dq : \A r \in images :
          r.id = img.id => r.description = NULL

\* A later cycle has begun while an entry carries the error marker that an
\* earlier pass gave it when the remote backend was unreachable.
C7_Witness ==
    /\ settings.use_ollama
    /\ spc = "ingest"
    /\ \E r \in images : r.id \in backendFailed /\ r.description = ErrMarker

\* C8: no failure on one entry propagates out of the description pass.
C8_PassNeverRaises == derr = "none"

\* C9: outside a running pass, every entry with a non-null description has
\* an index record with its id and that text.
C9_IndexConsistent ==
    spc # "describe" =>
        \A r \in images :
            r.description # NULL =>
                [ id |-> r.id, document |-> r.description ] \in index

\* C10: the description records of author "user" hold only texts the user
\* wrote, at most one per image, whatever the description passes do.
C10_UserTextKept ==
    /\ \A d \in userDesc : d.author = "user" /\ d.description \in UserTexts
    /\ \A d1, d2 \in userDesc : d1.image_id = d2.image_id => d1 = d2

\* The user wrote a description of an entry that the running pass had
\* already selected, and the pass has since described that entry.
C10_Witness ==
    \E d \in userDesc :
        /\ d.selected
        /\ \E r \in images : r.id = d.image_id /\ r.description # NULL

\* C11: on a directory tree (no links), a call image_files(root, existing)
\* on a root that exists returns exactly the files under the root, at any
\* depth, whose extension is a recognized image format, compared without
\* regard to case, and whose path is not in `existing`: no such file is
\* missed, and no known path, no file of another format and no directory
\* is returned.
C11_ScanExact ==
    (scan.pc = "done" /\ scan.err = "none" /\ world.links = {}) =>
        Range(scan.out) =
            { f \in Present :
                /\ StartsWith(f, scan.root \o <<SEP>>)
                /\ Lower(FormatOf(f)) \in { Tail(fmt) : fmt \in IMAGE_FORMATS }
                /\ f \notin scan.existing }

\* C12: a cycle leaves its ingest phase only into its description pass,
\* and only when every registered location has been loaded, whatever the
\* outcome of the loads: a load that fails does not end the cycle and does
\* not keep the remaining locations from being loaded.  The pass selects
\* every entry without a description, so also the entries the cycle has
\* just ingested, and the scheduler returns to idle only from the pass.
C12_IngestAllThenDescribe ==
    [][ /\ (spc = "ingest" /\ spc' # "ingest") =>
              /\ spc' = "describe"
              /\ slocs = {}
              /\ \A r \in images : r.description = NULL => r \in dq'
        /\ (spc # "idle" /\ spc' = "idle") => spc = "describe" ]_vars

\* C13: no step of an ingest run or of a description pass deletes an entry
\* or changes an entry's id, location, content fingerprint, format or
\* camera and exposure attributes; a description changes only in a running
\* pass and only for an entry the pass selected; outside a pass the table
\* only grows.
C13_EntriesKept ==
    [][ /\ \A r \in images : \E r2 \in images' :
              /\ r2.id = r.id
              /\ r2.location = r.location
              /\ r2.hash = r.hash
              /\ r2.format = r.format
              /\ r2.exif = r.exif
              /\ r2.description # r.description =>
                    (spc = "describe" /\ \E img \in dq : img.id = r.id)
        /\ spc # "describe" => images \subseteq images' ]_vars

\* An ingest run has added an entry to a catalog in which an earlier
\* description pass had described another entry.
C13_Witness ==
    /\ spc = "ingest"
    /\ \E r1, r2 \in images :
          /\ r1.description # NULL
          /\ r2.description = NULL
          /\ r2.id > r1.id

\* C14: a call image_files(root, existing) on a root that exists returns a
\* list of paths, also when a link in a subdirectory leads back to an
\* ancestor: the calls do not nest without end, and the call does not fail
\* for having nested too deep.
C14_ScanTerminates ==
    (scan.pc = "done" /\ scan.err # "ValueError") => scan.err = "none"

====
